---- MODULE Spec2Model ----
(***************************************************************************)
(* Model of the account API's two-factor-authentication flow               *)
(* (routes/auth: login, profile, 2fa/setup, 2fa/verify, 2fa/validate,      *)
(* 2fa/disable, 2fa/backup) for one registered user.                       *)
(*                                                                         *)
(* A handler is an async function: it is split at the awaits that touch    *)
(* the store.  The first step is the read (User.findOne / User.findById)   *)
(* together with the synchronous code up to the next store access; the     *)
(* second step, when the handler has one, is `await user.save()` together  *)
(* with the code that builds the response.  Between the two steps of one   *)
(* request the steps of another request may run.                           *)
(***************************************************************************)
EXTENDS Integers, Sequences, FiniteSets, TLC

\* ------------------------------------------------------------------ bounds
MaxSecrets == 2       \* secrets 2fa/setup can generate in one behaviour
BackupCodeCount == 2  \* codes of one generateBackupCodes() batch
MaxSteps == 3         \* TOTP steps the clock can advance in one behaviour

StepSeconds == 30     \* TOTP step
Window == 1           \* verifier tolerance, in steps
\* the age of a code that has left the verifier's window
StaleSeconds == (Window + 1) * StepSeconds

\* the clock when the behaviour starts
StartTime == 2 * StepSeconds
\* the amounts of time that pass between two steps of the program
TickSeconds == {StepSeconds - 1, 2 * StepSeconds + 1}

\* The requests that can be in flight together.
Reqs == {1, 2}

\* The values the configured encryption key takes (a restart can change it).
Keys == {"k1", "k2"}

\* ------------------------------------------------------------ the one user
UserId == "u1"
UserEmail == "alice@example.com"
OtherEmail == "nobody@example.com"
UserPassword == "pw-right"
WrongPassword == "pw-wrong"

\* undefined, as the value of a document path (an unset array path reads as [])
Undefined == << >>
\* null, as the result of a query that matches no user
NoUser == [_id |-> "null"]
\* the exception decrypt2FASecret throws, in place of the secret
Thrown == <<"thrown">>
None == "-"
NoCode == << >>
NoSecret == <<"none">>

\* store, now, key: the user document, the clock, the configured key.
\* nextSecret numbers the secrets generated.  pc, req, doc, resp: the handler
\* running in each slot.  replayed (history): the request answered last was a
\* validate repeating the code of the validate accepted just before it.
VARIABLES store, now, key, nextSecret, pc, req, doc, resp, replayed

\* The account endpoints (register, verify-email, forgot-password,
\* reset-password).  users: the user collection.  nextToken numbers the
\* tokens generated.  jobs: the handler running in each slot.
VARIABLES users, nextToken, jobs

\* The Cart component.  cart: the component instance and what it has set up in
\* its environment (battery listeners, the task manager, the cart context).
VARIABLES cart

twoFactorVars == <<store, key, nextSecret, pc, req, doc, resp, replayed>>

accountVars == <<users, nextToken, jobs>>

vars == <<store, now, key, nextSecret, pc, req, doc, resp, replayed, users, nextToken, jobs, cart>>

\* ------------------------------------------------- utils/twoFactorAuth
\* generateSecret: a fresh random secret, the n-th one generated.
generateSecret(n) == <<"secret", n>>

\* generateBackupCodes: a batch of distinct random codes, fresh per call.
generateBackupCodes(n) == [i \in 1..BackupCodeCount |-> <<"code", n, i>>]

\* encrypt2FASecret / decrypt2FASecret: the blob kept in the store, sealed
\* under the configured key; decryption throws on a malformed blob (none
\* stored) and on a blob sealed under another key.
encrypt2FASecret(secret) == <<key, secret>>

decrypt2FASecret(blob) ==
    IF Len(blob) # 2 THEN Thrown
    ELSE IF blob[1] # key THEN Thrown
    ELSE blob[2]

\* The code an authenticator shows for `secret` at time t.
generateToken(secret, t) == <<secret, t \div StepSeconds>>

Abs(x) == IF x < 0 THEN -x ELSE x

\* verifyToken(token, secret), evaluated at time atTime.
verifyToken(token, secret, atTime) ==
    /\ token[1] = secret
    /\ Abs(token[2] - (atTime \div StepSeconds)) <= Window

\* --------------------------------------------------------------- the store
\* The user document as the store holds it.
UserDoc(sec, prof) ==
    [ _id |-> UserId, email |-> UserEmail, password |-> UserPassword,
      profile |-> prof, securitySettings |-> sec ]

NewSettings ==
    [ twoFactorEnabled |-> FALSE, twoFactorSecret |-> Undefined,
      twoFactorBackupCodes |-> << >> ]

\* User.findById(req.user._id): `auth` has resolved the token to the user.
findById == store

\* User.findOne({ email })
findOne(email) == IF email = UserEmail THEN store ELSE NoUser

\* user.comparePassword(password)
comparePassword(d, password) == d.password = password

Includes(seq, x) == \E i \in 1..Len(seq) : seq[i] = x

Filter(seq, x) == SelectSeq(seq, LAMBDA c : c # x)

\* The value of a document at one of its paths.
Get(d, path) ==
    CASE path = "profile" -> d.profile
      [] path = "twoFactorEnabled" -> d.securitySettings.twoFactorEnabled
      [] path = "twoFactorSecret" -> d.securitySettings.twoFactorSecret
      [] path = "twoFactorBackupCodes" -> d.securitySettings.twoFactorBackupCodes

\* What user.save() sends for document d: its modified paths and their values.
Delta(d, modified) == [path \in modified |-> Get(d, path)]

\* user.save(): the modified paths are written, the others are left as they are.
Saved(delta) ==
    LET New(path) == IF path \in DOMAIN delta THEN delta[path] ELSE Get(store, path)
    IN  [ store EXCEPT
            !.profile = New("profile"),
            !.securitySettings =
                [ twoFactorEnabled |-> New("twoFactorEnabled"),
                  twoFactorSecret |-> New("twoFactorSecret"),
                  twoFactorBackupCodes |-> New("twoFactorBackupCodes") ] ]

\* --------------------------------------------------------------- responses
NoResp == [status |-> 0, body |-> [none |-> TRUE]]
NoDoc == [user |-> NoUser, delta |-> << >>, secret |-> NoSecret]
NoReq == [op |-> None, email |-> None, password |-> None, code |-> NoCode]

\* What a query that matches no account returns, and what a slot holds that
\* has no document.
NoAccount ==
    [ _id |-> 0, username |-> None, email |-> None, password |-> None,
      isEmailVerified |-> FALSE,
      emailVerificationToken |-> Undefined, emailVerificationExpires |-> Undefined,
      passwordResetToken |-> Undefined, passwordResetExpires |-> Undefined ]

\* the body and the parameters of a request to the account endpoints, and a
\* slot with no handler
NoInput == [username |-> None, email |-> None, password |-> None, token |-> Undefined]
NoJob == [pc |-> "idle", op |-> None, in |-> NoInput, user |-> NoAccount, modified |-> {}, out |-> NoResp]

\* the items of the cart
Items == {"a"}

\* The component before its first mount: the battery is full and charging, no
\* promise is pending, no listener attached, no task registered, the cart empty.
NoCart ==
    [ mounted |-> FALSE, instance |-> 0, getBattery |-> FALSE,
      isLowPowerMode |-> FALSE,
      battery |-> [level |-> 50, charging |-> TRUE],
      pending |-> {}, listeners |-> {},
      deps |-> << >>, tasks |-> << >>,
      version |-> FALSE,
      cartItems |-> [id \in Items |-> 0], rendered |-> [id \in Items |-> 0],
      calls |-> << >> ]

Error(status, message) == [status |-> status, body |-> [message |-> message]]

\* { id, username, email, role, isEmailVerified }
UserSummary(d) == [id |-> d._id, email |-> d.email]

\* jwt.sign({ userId }) and the user summary
Session(d) == [status |-> 200, body |-> [token |-> <<"jwt", d._id>>, user |-> UserSummary(d)]]

Challenge(d) == [status |-> 200, body |-> [require2FA |-> TRUE, email |-> d.email]]

Message(message) == [status |-> 200, body |-> [message |-> message]]

\* res.json(user) of a document loaded with select('-password')
WithoutPassword(d) ==
    [ _id |-> d._id, email |-> d.email, profile |-> d.profile,
      securitySettings |-> d.securitySettings ]

\* the catch block of every handler
ServerError == Error(500, "Server error")

\* What the synchronous part of a handler ends in: a response, or
\* `await user.save()` on the document with its modified paths.
Reply(out) == [save |-> FALSE, out |-> out, user |-> NoUser, modified |-> {}]

ThenSave(d, modified) == [save |-> TRUE, out |-> NoResp, user |-> d, modified |-> modified]

\* -------------------------------------------------------------------- Init
Init ==
    /\ store = UserDoc(NewSettings, [bio |-> ""])
    /\ now = StartTime
    /\ key = "k1"
    /\ nextSecret = 1
    /\ pc = [r \in Reqs |-> "idle"]
    /\ req = [r \in Reqs |-> NoReq]
    /\ doc = [r \in Reqs |-> NoDoc]
    /\ resp = [r \in Reqs |-> NoResp]
    /\ replayed = FALSE
    /\ users = << >>
    /\ nextToken = 1
    /\ jobs = [r \in Reqs |-> NoJob]
    /\ cart = NoCart

\* A request is given the lowest slot in which no handler is running.
Free(r) == pc[r] # "saving" /\ \A q \in Reqs : q < r => pc[q] = "saving"

\* What is kept of the slots when a new request arrives: the requests still in
\* flight; the responses of the finished ones have been delivered.
InFlight(f, empty) == [q \in Reqs |-> IF pc[q] = "saving" THEN f[q] ELSE empty]

\* What a handler still reads of its document once the save has returned:
\* PUT /profile serialises all of it, the others read at most _id and email.
Rest(op, d) ==
    IF op = "profile-put" THEN d
    ELSE [d EXCEPT !.profile = [bio |-> ""], !.securitySettings = NewSettings]

\* The new request in slot r runs its handler up to the response or the save.
Run(r, request, outcome, secret) ==
    /\ Free(r)
    /\ pc' = [InFlight(pc, "idle") EXCEPT ![r] = IF outcome.save THEN "saving" ELSE "done"]
    /\ req' = [InFlight(req, NoReq) EXCEPT ![r] = request]
    /\ doc' = [doc EXCEPT ![r] =
                 IF outcome.save
                 THEN [ user |-> Rest(request.op, outcome.user),
                        delta |-> Delta(outcome.user, outcome.modified),
                        secret |-> secret ]
                 ELSE NoDoc]
    /\ resp' = [InFlight(resp, NoResp) EXCEPT ![r] = outcome.out]
    /\ replayed' = ( /\ request.op = "validate"
                     /\ "token" \in DOMAIN outcome.out.body
                     /\ req[r] = request
                     /\ resp[r] = outcome.out )
    /\ UNCHANGED <<accountVars, cart>>

\* The handler of slot r, back from its save, ends with `out`.  Of the
\* responses answered before, the one to the same request sent twice is kept
\* beside it; the others have been delivered.
Finish(r, out) ==
    LET Kept(q) == pc[q] = "saving" \/ (pc[q] = "done" /\ req[q] = req[r])
    IN  /\ pc' = [q \in Reqs |-> IF q = r THEN "done" ELSE IF Kept(q) THEN pc[q] ELSE "idle"]
        /\ req' = [q \in Reqs |-> IF q = r \/ Kept(q) THEN req[q] ELSE NoReq]
        /\ doc' = [doc EXCEPT ![r] = NoDoc]
        /\ resp' = [q \in Reqs |-> IF q = r THEN out ELSE IF Kept(q) THEN resp[q] ELSE NoResp]
        /\ UNCHANGED <<replayed, accountVars, cart>>

\* ------------------------------------------------------------- POST /login
\* mutant: the twoFactorEnabled check is skipped
LoginHandlerNo2FA(user, password) ==
    IF user = NoUser THEN Reply(Error(401, "Invalid credentials"))
    ELSE IF ~comparePassword(user, password) THEN Reply(Error(401, "Invalid credentials"))
    ELSE Reply(Session(user))

\* mutant: an email without a user gets a message of its own
LoginHandlerEnumerable(user, password) ==
    IF user = NoUser THEN Reply(Error(401, "User not found"))
    ELSE IF ~comparePassword(user, password) THEN Reply(Error(401, "Invalid credentials"))
    ELSE IF user.securitySettings.twoFactorEnabled THEN Reply(Challenge(user))
    ELSE Reply(Session(user))

LoginHandler(user, password) ==
    IF user = NoUser THEN Reply(Error(401, "Invalid credentials"))
    ELSE IF ~comparePassword(user, password) THEN Reply(Error(401, "Invalid credentials"))
    ELSE IF user.securitySettings.twoFactorEnabled THEN Reply(Challenge(user))
    ELSE Reply(Session(user))

Credentials ==
    { <<UserEmail, UserPassword>>, <<UserEmail, WrongPassword>>, <<OtherEmail, UserPassword>> }

Login(r) ==
    /\ \E in \in Credentials :
          Run(r, [op |-> "login", email |-> in[1], password |-> in[2], code |-> NoCode],
              LoginHandler(findOne(in[1]), in[2]), NoSecret)
    /\ UNCHANGED <<store, now, key, nextSecret>>

\* ----------------------------------------------------------- GET /profile
ProfileGetHandler(user) == Reply([status |-> 200, body |-> WithoutPassword(user)])

ProfileGet(r) ==
    /\ Run(r, [op |-> "profile-get", email |-> None, password |-> None, code |-> NoCode],
           ProfileGetHandler(findById), NoSecret)
    /\ UNCHANGED <<store, now, key, nextSecret>>

\* ----------------------------------------------------------- PUT /profile
ProfilePutHandler(user, bio) == ThenSave([user EXCEPT !.profile = [bio |-> bio]], {"profile"})

ProfilePut(r) ==
    /\ \E bio \in {"bio"} :
          Run(r, [op |-> "profile-put", email |-> None, password |-> None, code |-> <<bio>>],
              ProfilePutHandler(findById, bio), NoSecret)
    /\ UNCHANGED <<store, now, key, nextSecret>>

\* --------------------------------------------------------- POST /2fa/setup
\* n numbers the secret and the backup codes this call generates.
\* mutant: setup also turns twoFactorEnabled on
SetupHandlerEnabling(user, n) ==
    ThenSave([ user EXCEPT
                 !.securitySettings.twoFactorEnabled = TRUE,
                 !.securitySettings.twoFactorSecret = encrypt2FASecret(generateSecret(n)),
                 !.securitySettings.twoFactorBackupCodes = generateBackupCodes(n) ],
             {"twoFactorEnabled", "twoFactorSecret", "twoFactorBackupCodes"})

SetupHandler(user, n) ==
    ThenSave([ user EXCEPT
                 !.securitySettings.twoFactorSecret = encrypt2FASecret(generateSecret(n)),
                 !.securitySettings.twoFactorBackupCodes = generateBackupCodes(n) ],
             {"twoFactorSecret", "twoFactorBackupCodes"})

Setup(r) ==
    /\ nextSecret <= MaxSecrets
    /\ Run(r, [op |-> "setup", email |-> None, password |-> None, code |-> NoCode],
           SetupHandler(findById, nextSecret), generateSecret(nextSecret))
    /\ nextSecret' = nextSecret + 1
    /\ UNCHANGED <<store, now, key>>

\* -------------------------------------------------------- POST /2fa/verify
\* The setup calls whose secret and codes a client submits codes of: the
\* newest one and the one whose secret the store holds (0 when there is none:
\* no setup has shown secret 0 or its codes, a code of it is a guess).
Known ==
    {0, nextSecret - 1}
        \cup (IF store.securitySettings.twoFactorSecret = Undefined THEN {}
              ELSE {store.securitySettings.twoFactorSecret[2][2]})

\* The times the codes a client still holds were derived for, one per TOTP
\* step: since the start, up to a client clock that runs ahead by less than a
\* step, and one that has left the verifier's window.
Derived ==
    {now - StaleSeconds}
        \cup { StartTime + k * StepSeconds :
                  k \in 0..((now + StepSeconds - 1 - StartTime) \div StepSeconds) }

\* What a client can submit as a TOTP code: the current code of a known secret,
\* or a code of the newest secret derived for another time.
Tokens ==
    { generateToken(generateSecret(n), now) : n \in Known }
        \cup { generateToken(generateSecret(nextSecret - 1), t) : t \in Derived }

\* mutant: the result of verifyToken is not looked at
VerifyHandlerUnchecked(user, token, atTime) ==
    LET secret == decrypt2FASecret(user.securitySettings.twoFactorSecret)
    IN  IF secret = Thrown THEN Reply(ServerError)
        ELSE ThenSave([user EXCEPT !.securitySettings.twoFactorEnabled = TRUE],
                      {"twoFactorEnabled"})

\* mutant: a secret that cannot be decrypted is taken as verified
VerifyHandlerNoSecret(user, token, atTime) ==
    LET secret == decrypt2FASecret(user.securitySettings.twoFactorSecret)
    IN  IF secret # Thrown /\ ~verifyToken(token, secret, atTime)
        THEN Reply(Error(400, "Invalid verification code"))
        ELSE ThenSave([user EXCEPT !.securitySettings.twoFactorEnabled = TRUE],
                      {"twoFactorEnabled"})

VerifyHandler(user, token, atTime) ==
    LET secret == decrypt2FASecret(user.securitySettings.twoFactorSecret)
    IN  IF secret = Thrown THEN Reply(ServerError)
        ELSE IF ~verifyToken(token, secret, atTime)
        THEN Reply(Error(400, "Invalid verification code"))
        ELSE ThenSave([user EXCEPT !.securitySettings.twoFactorEnabled = TRUE],
                      {"twoFactorEnabled"})

Verify(r) ==
    /\ \E token \in Tokens :
          Run(r, [op |-> "verify", email |-> None, password |-> None, code |-> token],
              VerifyHandler(findById, token, now), NoSecret)
    /\ UNCHANGED <<store, now, key, nextSecret>>

\* ------------------------------------------------------ POST /2fa/validate
\* The (email, code) pairs a client submits: for an email without a user the
\* handler never looks at the code, so one code stands for all.
WithEmail(codes) ==
    { <<UserEmail, c>> : c \in codes } \cup { <<OtherEmail, CHOOSE c \in codes : TRUE>> }

\* mutant: the result of verifyToken is not looked at
ValidateHandlerUnchecked(user, token, atTime) ==
    IF user = NoUser THEN Reply(Error(400, "Invalid request"))
    ELSE IF ~user.securitySettings.twoFactorEnabled THEN Reply(Error(400, "Invalid request"))
    ELSE LET secret == decrypt2FASecret(user.securitySettings.twoFactorSecret)
         IN  IF secret = Thrown THEN Reply(ServerError)
             ELSE Reply(Session(user))

\* mutant: a secret that cannot be decrypted lets the request through
ValidateHandlerFailsOpen(user, token, atTime) ==
    IF user = NoUser THEN Reply(Error(400, "Invalid request"))
    ELSE IF ~user.securitySettings.twoFactorEnabled THEN Reply(Error(400, "Invalid request"))
    ELSE LET secret == decrypt2FASecret(user.securitySettings.twoFactorSecret)
         IN  IF secret = Thrown THEN Reply(Session(user))
             ELSE IF ~verifyToken(token, secret, atTime)
             THEN Reply(Error(400, "Invalid verification code"))
             ELSE Reply(Session(user))

\* mutant: an accepted code is recorded in the user document, which is saved
\* before the token is issued
ValidateHandlerRecording(user, token, atTime) ==
    IF user = NoUser THEN Reply(Error(400, "Invalid request"))
    ELSE IF ~user.securitySettings.twoFactorEnabled THEN Reply(Error(400, "Invalid request"))
    ELSE LET secret == decrypt2FASecret(user.securitySettings.twoFactorSecret)
         IN  IF secret = Thrown THEN Reply(ServerError)
             ELSE IF ~verifyToken(token, secret, atTime)
             THEN Reply(Error(400, "Invalid verification code"))
             ELSE ThenSave([user EXCEPT !.profile = [bio |-> token]], {"profile"})

ValidateHandler(user, token, atTime) ==
    IF user = NoUser THEN Reply(Error(400, "Invalid request"))
    ELSE IF ~user.securitySettings.twoFactorEnabled THEN Reply(Error(400, "Invalid request"))
    ELSE LET secret == decrypt2FASecret(user.securitySettings.twoFactorSecret)
         IN  IF secret = Thrown THEN Reply(ServerError)
             ELSE IF ~verifyToken(token, secret, atTime)
             THEN Reply(Error(400, "Invalid verification code"))
             ELSE Reply(Session(user))

Validate(r) ==
    /\ \E in \in WithEmail(Tokens) :
          Run(r, [op |-> "validate", email |-> in[1], password |-> None, code |-> in[2]],
              ValidateHandler(findOne(in[1]), in[2], now), NoSecret)
    /\ UNCHANGED <<store, now, key, nextSecret>>

\* ------------------------------------------------------- POST /2fa/disable
\* mutant: the secret and the codes are cleared, twoFactorEnabled is left on
DisableHandlerKeepsFlag(user, token, atTime) ==
    LET secret == decrypt2FASecret(user.securitySettings.twoFactorSecret)
    IN  IF secret = Thrown THEN Reply(ServerError)
        ELSE IF ~verifyToken(token, secret, atTime)
        THEN Reply(Error(400, "Invalid verification code"))
        ELSE ThenSave([ user EXCEPT
                          !.securitySettings.twoFactorSecret = Undefined,
                          !.securitySettings.twoFactorBackupCodes = Undefined ],
                      {"twoFactorSecret", "twoFactorBackupCodes"})

\* mutant: the backup codes are not cleared
DisableHandlerKeepsCodes(user, token, atTime) ==
    LET secret == decrypt2FASecret(user.securitySettings.twoFactorSecret)
    IN  IF secret = Thrown THEN Reply(ServerError)
        ELSE IF ~verifyToken(token, secret, atTime)
        THEN Reply(Error(400, "Invalid verification code"))
        ELSE ThenSave([ user EXCEPT
                          !.securitySettings.twoFactorEnabled = FALSE,
                          !.securitySettings.twoFactorSecret = Undefined ],
                      {"twoFactorEnabled", "twoFactorSecret"})

\* mutant: the result of verifyToken is not looked at
DisableHandlerUnchecked(user, token, atTime) ==
    LET secret == decrypt2FASecret(user.securitySettings.twoFactorSecret)
    IN  IF secret = Thrown THEN Reply(ServerError)
        ELSE ThenSave([ user EXCEPT
                          !.securitySettings.twoFactorEnabled = FALSE,
                          !.securitySettings.twoFactorSecret = Undefined,
                          !.securitySettings.twoFactorBackupCodes = Undefined ],
                      {"twoFactorEnabled", "twoFactorSecret", "twoFactorBackupCodes"})

DisableHandler(user, token, atTime) ==
    LET secret == decrypt2FASecret(user.securitySettings.twoFactorSecret)
    IN  IF secret = Thrown THEN Reply(ServerError)
        ELSE IF ~verifyToken(token, secret, atTime)
        THEN Reply(Error(400, "Invalid verification code"))
        ELSE ThenSave([ user EXCEPT
                          !.securitySettings.twoFactorEnabled = FALSE,
                          !.securitySettings.twoFactorSecret = Undefined,
                          !.securitySettings.twoFactorBackupCodes = Undefined ],
                      {"twoFactorEnabled", "twoFactorSecret", "twoFactorBackupCodes"})

Disable(r) ==
    /\ \E token \in Tokens :
          Run(r, [op |-> "disable", email |-> None, password |-> None, code |-> token],
              DisableHandler(findById, token, now), NoSecret)
    /\ UNCHANGED <<store, now, key, nextSecret>>

\* -------------------------------------------------------- POST /2fa/backup
\* What a client can submit as a backup code: a code of a known setup, used
\* already or not, or a guess.
BackupInputs ==
    { generateBackupCodes(n)[i] : n \in Known \ {0}, i \in 1..BackupCodeCount }
        \cup { generateBackupCodes(0)[1] }

\* mutant: the used code is left in the array
BackupHandlerKeepsCode(user, backupCode) ==
    IF user = NoUser THEN Reply(Error(400, "Invalid request"))
    ELSE IF ~user.securitySettings.twoFactorEnabled THEN Reply(Error(400, "Invalid request"))
    ELSE IF ~Includes(user.securitySettings.twoFactorBackupCodes, backupCode)
    THEN Reply(Error(400, "Invalid backup code"))
    ELSE ThenSave(user, {"twoFactorBackupCodes"})

\* mutant: twoFactorEnabled is not looked at
BackupHandlerPending(user, backupCode) ==
    IF user = NoUser THEN Reply(Error(400, "Invalid request"))
    ELSE IF ~Includes(user.securitySettings.twoFactorBackupCodes, backupCode)
    THEN Reply(Error(400, "Invalid backup code"))
    ELSE ThenSave([ user EXCEPT
                      !.securitySettings.twoFactorBackupCodes = Filter(@, backupCode) ],
                  {"twoFactorBackupCodes"})

BackupHandler(user, backupCode) ==
    IF user = NoUser THEN Reply(Error(400, "Invalid request"))
    ELSE IF ~user.securitySettings.twoFactorEnabled THEN Reply(Error(400, "Invalid request"))
    ELSE IF ~Includes(user.securitySettings.twoFactorBackupCodes, backupCode)
    THEN Reply(Error(400, "Invalid backup code"))
    ELSE ThenSave([ user EXCEPT
                      !.securitySettings.twoFactorBackupCodes = Filter(@, backupCode) ],
                  {"twoFactorBackupCodes"})

Backup(r) ==
    /\ \E in \in WithEmail(BackupInputs) :
          Run(r, [op |-> "backup", email |-> in[1], password |-> None, code |-> in[2]],
              BackupHandler(findOne(in[1]), in[2]), NoSecret)
    /\ UNCHANGED <<store, now, key, nextSecret>>

\* ------------------------------------------------ await user.save() returns
\* The response a handler builds once its save has returned.
SaveResponse(op, d) ==
    CASE op = "setup" ->
            [ status |-> 200,
              body |-> [ qrCode |-> <<"qr", d.secret>>,
                         backupCodes |-> d.delta["twoFactorBackupCodes"],
                         secret |-> d.secret ] ]
      [] op = "verify" -> Message("2FA enabled successfully")
      [] op = "disable" -> Message("2FA disabled successfully")
      [] op = "backup" -> Session(d.user)
      [] op = "profile-put" -> [status |-> 200, body |-> d.user]

Save(r) ==
    /\ pc[r] = "saving"
    /\ store' = Saved(doc[r].delta)
    /\ Finish(r, SaveResponse(req[r].op, doc[r]))
    /\ UNCHANGED <<now, key, nextSecret>>

\* mutant: the save is not awaited: the handler answers though nothing is written
SaveFailsUnnoticed(r) ==
    /\ pc[r] = "saving"
    /\ Finish(r, SaveResponse(req[r].op, doc[r]))
    /\ UNCHANGED <<store, now, key, nextSecret>>

\* await user.save() throws: the catch block answers 500.
SaveFails(r) ==
    /\ pc[r] = "saving"
    /\ Finish(r, ServerError)
    /\ UNCHANGED <<store, now, key, nextSecret>>

\* ------------------------------------------------------- specifications
\* The login and two-factor endpoints, requests overlapping.
Next ==
    \/ \E r \in Reqs : Login(r)
    \/ \E r \in Reqs : Setup(r)
    \/ \E r \in Reqs : Verify(r)
    \/ \E r \in Reqs : Validate(r)
    \/ \E r \in Reqs : Disable(r)
    \/ \E r \in Reqs : Backup(r)
    \/ \E r \in Reqs : Save(r)
    \/ \E r \in Reqs : SaveFails(r)

Spec == Init /\ [][Next]_vars

\* The same endpoints, each request handled to its response before the next.
Quiet == \A q \in Reqs : pc[q] # "saving"

\* Time passes.
Tick ==
    /\ \E d \in TickSeconds :
          /\ now + d <= StartTime + MaxSteps * StepSeconds
          /\ now' = now + d
    /\ UNCHANGED <<store, key, nextSecret, pc, req, doc, resp, replayed, accountVars, cart>>

\* The server is restarted with another encryption key configured; a restart
\* ends the handlers in flight, so it is taken with none running.
Rotate ==
    /\ Quiet
    /\ \E k \in Keys \ {key} : key' = k
    /\ UNCHANGED <<store, now, nextSecret, pc, req, doc, resp, replayed, accountVars, cart>>

SeqNext ==
    \/ \E r \in Reqs : Quiet /\ Login(r)
    \/ \E r \in Reqs : Quiet /\ Setup(r)
    \/ \E r \in Reqs : Quiet /\ Verify(r)
    \/ \E r \in Reqs : Quiet /\ Validate(r)
    \/ \E r \in Reqs : Quiet /\ Disable(r)
    \/ \E r \in Reqs : Quiet /\ Backup(r)
    \/ \E r \in Reqs : Save(r)
    \/ \E r \in Reqs : SaveFails(r)

SeqSpec == Init /\ [][SeqNext]_vars

\* Requests one after another, with time passing between them.
TimeNext ==
    \/ Tick
    \/ SeqNext

TimeSpec == Init /\ [][TimeNext]_vars

\* Requests one after another, with restarts that change the encryption key.
KeyNext ==
    \/ Rotate
    \/ SeqNext

KeySpec == Init /\ [][KeyNext]_vars

\* All the endpoints, the profile ones included, requests overlapping.
ProfileNext ==
    \/ \E r \in Reqs : ProfileGet(r)
    \/ \E r \in Reqs : ProfilePut(r)
    \/ Next

ProfileSpec == Init /\ [][ProfileNext]_vars

\* ------------------------------------------------------------ vocabulary
Settings == store.securitySettings

HasToken(out) == "token" \in DOMAIN out.body

IsChallenge(out) == "require2FA" \in DOMAIN out.body

MessageOf(out) == IF "message" \in DOMAIN out.body THEN out.body.message ELSE None

\* This step is the first step of a new request in slot r, for endpoint op
\* (not the clock advancing or a restart, with an answered request in slot r).
Starts(r, op) ==
    /\ now' = now
    /\ key' = key
    /\ pc[r] # "saving"
    /\ pc'[r] # "idle"
    /\ req'[r].op = op
    /\ \A q \in Reqs \ {r} : pc'[q] = IF pc[q] = "saving" THEN "saving" ELSE "idle"

\* This step is the return of the save of the request in slot r, of endpoint op.
Returns(r, op) == pc[r] = "saving" /\ pc'[r] = "done" /\ req[r].op = op

\* The save of slot r has returned with the handler's success response.
Succeeds(r, op) == Returns(r, op) /\ resp'[r].status = 200

\* `code` is a TOTP code of the secret the store holds, which the configured
\* key opens, inside its window now.
GoodCode(code) ==
    /\ Settings.twoFactorSecret # Undefined
    /\ Settings.twoFactorSecret[1] = key
    /\ code[1] = Settings.twoFactorSecret[2]
    /\ code[2] \in {(now \div StepSeconds) - 1, now \div StepSeconds, (now \div StepSeconds) + 1}

\* ---------------------------------------------------------------- claims
\* C1: setup, run any number of times, never changes twoFactorEnabled (neither
\* its first step nor its save), and a login with the right credentials while
\* twoFactorEnabled is false gets a session token and no challenge.
C1_SetupDoesNotEnable ==
    [][\A r \in Reqs :
          /\ (Starts(r, "setup") \/ Returns(r, "setup"))
                => Settings'.twoFactorEnabled = Settings.twoFactorEnabled
          /\ ( /\ Starts(r, "login")
               /\ req'[r].email = UserEmail /\ req'[r].password = UserPassword
               /\ ~Settings.twoFactorEnabled )
                => HasToken(resp'[r]) /\ ~IsChallenge(resp'[r])]_vars

\* C1 witness: two setups have run, 2FA is still not enabled, and a login got a token.
C1_Witness ==
    /\ nextSecret = 3
    /\ Settings.twoFactorSecret = encrypt2FASecret(generateSecret(2))
    /\ ~Settings.twoFactorEnabled
    /\ \E r \in Reqs : req[r].op = "login" /\ HasToken(resp[r])

C3_AtMostOneRedeem ==
    \A r1, r2 \in Reqs :
        ( /\ r1 # r2
          /\ req[r1].op = "backup" /\ req[r2].op = "backup"
          /\ req[r1].code = req[r2].code )
            => ~(HasToken(resp[r1]) /\ HasToken(resp[r2]))

\* C4: requests handled one after another: a successful backup-redeem removes
\* exactly the redeemed code (the array is one shorter, the others are kept in
\* order); a code that is not in the array comes back only by a setup; and a
\* redeem of a code that is not in the array is refused with 400 and no token,
\* the message being 'Invalid backup code' while 2FA is enabled.
C4_RedeemOnce ==
    [][\A r \in Reqs :
          /\ Succeeds(r, "backup")
                => /\ HasToken(resp'[r])
                   /\ Includes(Settings.twoFactorBackupCodes, req[r].code)
                   /\ ~Includes(Settings'.twoFactorBackupCodes, req[r].code)
                   /\ Len(Settings'.twoFactorBackupCodes)
                          = Len(Settings.twoFactorBackupCodes) - 1
                   /\ \A i \in 1..Len(Settings.twoFactorBackupCodes) :
                          Settings.twoFactorBackupCodes[i] # req[r].code
                              => Includes(Settings'.twoFactorBackupCodes,
                                          Settings.twoFactorBackupCodes[i])
          /\ ( /\ Starts(r, "backup")
               /\ ~Includes(Settings.twoFactorBackupCodes, req'[r].code) )
                => /\ pc'[r] = "done"
                   /\ resp'[r].status = 400
                   /\ ~HasToken(resp'[r])
                   /\ (req'[r].email = UserEmail /\ Settings.twoFactorEnabled)
                          => MessageOf(resp'[r]) = "Invalid backup code"
          /\ (\E c \in BackupInputs :
                 /\ ~Includes(Settings.twoFactorBackupCodes, c)
                 /\ Includes(Settings'.twoFactorBackupCodes, c))
                => \E q \in Reqs : Succeeds(q, "setup")]_vars

\* C4 witness: a code was redeemed, the other code of the batch is left, and
\* the retry with the redeemed code was refused.
C4_Witness ==
    /\ Settings.twoFactorEnabled
    /\ Len(Settings.twoFactorBackupCodes) = BackupCodeCount - 1
    /\ \E r \in Reqs :
          /\ req[r].op = "backup"
          /\ req[r].code \in { generateBackupCodes(Settings.twoFactorSecret[2][2])[i] :
                                  i \in 1..BackupCodeCount }
          /\ ~Includes(Settings.twoFactorBackupCodes, req[r].code)
          /\ MessageOf(resp[r]) = "Invalid backup code"

\* C5: a login with the right credentials gets only the challenge when
\* twoFactorEnabled is true and a session token when it is false; a login with
\* a wrong password or an unknown email gets 401 and no token.
C5_LoginOutcome ==
    [][\A r \in Reqs : Starts(r, "login") =>
          /\ pc'[r] = "done"
          /\ store' = store
          /\ IF req'[r].email = UserEmail /\ req'[r].password = UserPassword
             THEN IF Settings.twoFactorEnabled
                  THEN /\ resp'[r].status = 200
                       /\ DOMAIN resp'[r].body = {"require2FA", "email"}
                       /\ resp'[r].body.require2FA
                       /\ resp'[r].body.email = UserEmail
                  ELSE /\ resp'[r].status = 200
                       /\ HasToken(resp'[r])
                       /\ ~IsChallenge(resp'[r])
             ELSE /\ resp'[r].status = 401
                  /\ ~HasToken(resp'[r])
                  /\ ~IsChallenge(resp'[r])]_vars

\* C5 witness: a login with the right credentials got the challenge.
C5_Witness ==
    \E r \in Reqs :
        /\ req[r].op = "login"
        /\ req[r].password = UserPassword
        /\ IsChallenge(resp[r])
        /\ Settings.twoFactorEnabled

\* What a response body serialises of the two-factor settings: the secret (raw
\* or encrypted) or backup codes.
Discloses(body) ==
    \/ "secret" \in DOMAIN body
    \/ "backupCodes" \in DOMAIN body
    \/ /\ "securitySettings" \in DOMAIN body
       /\ \/ body.securitySettings.twoFactorSecret # Undefined
          \/ body.securitySettings.twoFactorBackupCodes # << >>

\* C6: no response of an endpoint other than setup contains the secret, raw or
\* encrypted, or the remaining backup codes.
C6_OnlySetupDiscloses ==
    \A r \in Reqs : (pc[r] = "done" /\ req[r].op # "setup") => ~Discloses(resp[r].body)

\* C7: every failure response of validate and backup-redeem carries one message
\* text, the one a request for an email without a user gets.
C7_OneFailureMessage ==
    \A r \in Reqs :
        (pc[r] = "done" /\ req[r].op \in {"validate", "backup"} /\ resp[r].status # 200)
            => MessageOf(resp[r]) = "Invalid request"

\* C8: a disable request whose code does not verify performs no save and leaves
\* the stored settings as they are; when a secret is stored the answer is
\* 400 'Invalid verification code' (with none stored, decryption throws: 500).
C8_DisableRejected ==
    [][\A r \in Reqs : (Starts(r, "disable") /\ ~GoodCode(req'[r].code)) =>
          /\ pc'[r] = "done"
          /\ store' = store
          /\ resp'[r].status \in {400, 500}
          /\ Settings.twoFactorSecret # Undefined
                => resp'[r] = Error(400, "Invalid verification code")]_vars

\* C8 witness: 2FA is enabled and a disable with a wrong code was refused.
C8_Witness ==
    /\ Settings.twoFactorEnabled
    /\ Len(Settings.twoFactorBackupCodes) = BackupCodeCount
    /\ \E r \in Reqs :
          /\ req[r].op = "disable"
          /\ pc[r] = "done"
          /\ MessageOf(resp[r]) = "Invalid verification code"

\* C9: a disable request with a code that verifies goes on to one save that
\* sets twoFactorEnabled false and clears the secret and the backup codes
\* together; and while twoFactorEnabled is false, login with the right
\* credentials gets a token and no challenge, and validate and backup-redeem
\* are refused.
C9_DisableClears ==
    [][\A r \in Reqs :
          /\ (Starts(r, "disable") /\ GoodCode(req'[r].code))
                => /\ pc'[r] = "saving"
                   /\ store' = store
          /\ Succeeds(r, "disable")
                => /\ ~Settings'.twoFactorEnabled
                   /\ Settings'.twoFactorSecret = Undefined
                   /\ Settings'.twoFactorBackupCodes = Undefined
                   /\ resp'[r] = Message("2FA disabled successfully")
          /\ (Returns(r, "disable") /\ ~Succeeds(r, "disable")) => store' = store
          /\ ( /\ ~Settings.twoFactorEnabled
               /\ Starts(r, "login")
               /\ req'[r].email = UserEmail /\ req'[r].password = UserPassword )
                => HasToken(resp'[r]) /\ ~IsChallenge(resp'[r])
          /\ ( /\ ~Settings.twoFactorEnabled
               /\ (Starts(r, "validate") \/ Starts(r, "backup")) )
                => /\ pc'[r] = "done"
                   /\ resp'[r].status = 400
                   /\ ~HasToken(resp'[r])]_vars

\* C9 witness: 2FA was enabled, a disable succeeded, the settings are cleared.
C9_Witness ==
    /\ Settings = [ twoFactorEnabled |-> FALSE, twoFactorSecret |-> Undefined,
                    twoFactorBackupCodes |-> Undefined ]
    /\ \E r \in Reqs : req[r].op = "disable" /\ resp[r] = Message("2FA disabled successfully")

\* C10: twoFactorEnabled goes from false to true only in the save of a verify
\* request, and a verify request reaches its save only with a code that
\* verified against the stored secret; a verify request whose code does not
\* verify against the stored secret gets 400 'Invalid verification code',
\* performs no save and leaves the store as it is.
C10_EnableOnlyByVerify ==
    [][/\ (~Settings.twoFactorEnabled /\ Settings'.twoFactorEnabled)
            => \E r \in Reqs : Succeeds(r, "verify")
       /\ \A r \in Reqs :
            /\ (Starts(r, "verify") /\ pc'[r] = "saving") => GoodCode(req'[r].code)
            /\ (Starts(r, "verify") /\ ~GoodCode(req'[r].code))
                  => /\ pc'[r] = "done"
                     /\ store' = store
                     /\ Settings.twoFactorSecret # Undefined
                           => resp'[r] = Error(400, "Invalid verification code")]_vars

\* C10 witness: the save of a verify request has enabled 2FA.
C10_Witness ==
    \E r \in Reqs :
        /\ req[r].op = "verify"
        /\ resp[r] = Message("2FA enabled successfully")
        /\ Settings.twoFactorEnabled

\* C11: a verify request that finds no secret stored ends at once with an error
\* response (status 500, a message and nothing else), performs no save and
\* leaves the store as it is; when no setup has run at all, twoFactorEnabled is
\* false after it.
C11_VerifyWithoutSecret ==
    [][\A r \in Reqs : (Starts(r, "verify") /\ Settings.twoFactorSecret = Undefined) =>
          /\ pc'[r] = "done"
          /\ resp'[r].status = 500
          /\ DOMAIN resp'[r].body = {"message"}
          /\ store' = store
          /\ nextSecret = 1 => ~Settings'.twoFactorEnabled]_vars

\* C11 witness: no setup has run, and a verify request was answered with the
\* error.
C11_Witness ==
    /\ nextSecret = 1
    /\ Settings = NewSettings
    /\ \E r \in Reqs : req[r].op = "verify" /\ pc[r] = "done" /\ resp[r] = ServerError

\* C12: a validate request is answered at once, writes nothing, and gets a
\* session token exactly when the email is the user's, twoFactorEnabled is true
\* and the code verifies against the stored secret.  A backup-redeem request
\* goes on to its save exactly when the email is the user's, twoFactorEnabled
\* is true and the code is in twoFactorBackupCodes, and is refused with 400 and
\* no token otherwise; its token is issued when that save returns (a save that
\* throws is answered 500).  So a code stored by setup is refused while
\* twoFactorEnabled is still false.
C12_TokenIff ==
    [][\A r \in Reqs :
          /\ Starts(r, "validate")
                => /\ pc'[r] = "done"
                   /\ store' = store
                   /\ HasToken(resp'[r])
                          <=> ( /\ req'[r].email = UserEmail
                                /\ Settings.twoFactorEnabled
                                /\ GoodCode(req'[r].code) )
          /\ Starts(r, "backup")
                => /\ store' = store
                   /\ ~HasToken(resp'[r])
                   /\ pc'[r] = "saving"
                          <=> ( /\ req'[r].email = UserEmail
                                /\ Settings.twoFactorEnabled
                                /\ Includes(Settings.twoFactorBackupCodes, req'[r].code) )
                   /\ pc'[r] = "done" => resp'[r].status = 400
          /\ Returns(r, "backup")
                => /\ HasToken(resp'[r]) <=> resp'[r].status = 200
                   /\ resp'[r].status \in {200, 500}]_vars

\* C12 witness: setup has stored backup codes, 2FA is not enabled yet, and the
\* redeem of a stored code was refused.
C12_Witness ==
    /\ ~Settings.twoFactorEnabled
    /\ Len(Settings.twoFactorBackupCodes) = BackupCodeCount
    /\ \E r \in Reqs :
          /\ req[r].op = "backup"
          /\ req[r].email = UserEmail
          /\ Includes(Settings.twoFactorBackupCodes, req[r].code)
          /\ pc[r] = "done"
          /\ resp[r] = Error(400, "Invalid request")

\* C13: requests handled one after another: a setup request goes on to its save
\* whatever the stored settings are, and when the save has returned the stored
\* secret and backup codes are the newly generated ones, different from those
\* stored before, and twoFactorEnabled is false.
C13_SetupLeavesPending ==
    [][\A r \in Reqs :
          /\ Starts(r, "setup") => pc'[r] = "saving"
          /\ Succeeds(r, "setup")
                => /\ Settings'.twoFactorSecret = encrypt2FASecret(resp'[r].body.secret)
                   /\ Settings'.twoFactorBackupCodes = resp'[r].body.backupCodes
                   /\ Settings'.twoFactorSecret # Settings.twoFactorSecret
                   /\ Settings'.twoFactorBackupCodes # Settings.twoFactorBackupCodes
                   /\ ~Settings'.twoFactorEnabled]_vars

\* C14: a login for an email without a user and a login for the user's email
\* with a wrong password get the same response, whatever the stored settings
\* are: status 401 and the one message, and nothing else in the body; it is the
\* response the handler gives in the other of the two cases.
C14_LoginFailuresAlike ==
    [][\A r \in Reqs :
          ( /\ Starts(r, "login")
            /\ (req'[r].email # UserEmail \/ req'[r].password # UserPassword) )
            => /\ resp'[r].status = 401
               /\ DOMAIN resp'[r].body = {"message"}
               /\ resp'[r].body.message = "Invalid credentials"
               /\ resp'[r] = LoginHandler(findOne(OtherEmail), req'[r].password).out
               /\ resp'[r] = LoginHandler(findOne(UserEmail), WrongPassword).out]_vars

\* C14 witness: 2FA is enabled and a login for an email without a user was
\* answered with the response of a wrong password.
C14_Witness ==
    /\ Settings.twoFactorEnabled
    /\ \E r \in Reqs :
          /\ req[r].op = "login"
          /\ req[r].email = OtherEmail
          /\ resp[r] = Error(401, "Invalid credentials")

\* C15: in setup, verify, disable and backup-redeem no response exists while
\* the save is pending; the first step neither writes nor answers with
\* success; the success response (for backup-redeem, the session token)
\* appears in the step in which the save returns, with every modified path
\* written to the store; and a save that returns without its changes in the
\* store is answered 500 'Server error' with no token.
C15_WriteBeforeResponse ==
    [][\A r \in Reqs :
          /\ pc'[r] = "saving" => resp'[r] = NoResp
          /\ ( /\ req'[r].op \in {"setup", "verify", "disable", "backup"}
               /\ Starts(r, req'[r].op) )
                => /\ store' = store
                   /\ resp'[r].status # 200
                   /\ ~HasToken(resp'[r])
          /\ ( /\ req[r].op \in {"setup", "verify", "disable", "backup"}
               /\ Returns(r, req[r].op) )
                => IF resp'[r].status = 200
                   THEN \A path \in DOMAIN doc[r].delta :
                           Get(store', path) = doc[r].delta[path]
                   ELSE /\ store' = store
                        /\ resp'[r] = ServerError
                        /\ ~HasToken(resp'[r])
          /\ ( /\ req[r].op \in {"setup", "verify", "disable", "backup"}
               /\ Returns(r, req[r].op)
               /\ \E path \in DOMAIN doc[r].delta :
                      Get(store', path) # doc[r].delta[path] )
                => resp'[r] = ServerError]_vars

\* C15 witness: the save of a backup-redeem has thrown: the request was answered
\* 500 and the code is still in the store.
C15_Witness ==
    /\ Settings.twoFactorEnabled
    /\ \E r \in Reqs :
          /\ req[r].op = "backup"
          /\ pc[r] = "done"
          /\ resp[r] = ServerError
          /\ Includes(Settings.twoFactorBackupCodes, req[r].code)

\* The times a code submitted in a behaviour can have been derived for.
Times == 0..(StartTime + (MaxSteps + 1) * StepSeconds)

\* C16: requests one after another, time passing: for a validate request of the
\* enabled user whose code was derived from the stored secret for a time t,
\* the code is accepted (a session token is issued) when the step counter of
\* the present time is that of t or adjacent to it, so when the present time
\* is t - 29, t or t + 29, and the request is refused with 400 'Invalid
\* verification code' when the present time is t + 61 or later, so at t + 90.
\* The verifier itself accepts the present code 29 seconds earlier and later,
\* and rejects it 61 and 90 seconds later.
C16_CodeWindow ==
    [][/\ \A r \in Reqs :
            ( /\ Starts(r, "validate")
              /\ req'[r].email = UserEmail
              /\ Settings.twoFactorEnabled
              /\ Settings.twoFactorSecret # Undefined
              /\ Settings.twoFactorSecret[1] = key )
              => \A t \in Times :
                    req'[r].code = generateToken(Settings.twoFactorSecret[2], t)
                      => /\ (now \div 30) - (t \div 30) \in {-1, 0, 1} => HasToken(resp'[r])
                         /\ now \in {t - 29, t, t + 29} => HasToken(resp'[r])
                         /\ now >= t + 61
                               => resp'[r] = Error(400, "Invalid verification code")
                         /\ now = t + 90
                               => resp'[r] = Error(400, "Invalid verification code")
       /\ \A n \in 1..MaxSecrets :
            LET secret == generateSecret(n)
                code == generateToken(secret, now)
            IN  /\ verifyToken(code, secret, now)
                /\ verifyToken(code, secret, now + 29)
                /\ verifyToken(code, secret, now - 29)
                /\ ~verifyToken(code, secret, now + 61)
                /\ ~verifyToken(code, secret, now + 90)]_vars

\* C16 witness: 2FA is enabled, 90 seconds have passed since the start, and a
\* validate request with the code derived at the start was refused.
C16_Witness ==
    /\ now = StartTime + 90
    /\ Settings.twoFactorEnabled
    /\ Settings.twoFactorSecret # Undefined
    /\ \E r \in Reqs :
          /\ req[r].op = "validate"
          /\ req[r].email = UserEmail
          /\ req[r].code = generateToken(Settings.twoFactorSecret[2], StartTime)
          /\ resp[r] = Error(400, "Invalid verification code")

\* The configured key does not open what the store holds as the secret.
Undecryptable ==
    \/ Settings.twoFactorSecret = Undefined
    \/ Settings.twoFactorSecret[1] # key

\* C17: requests one after another, the key changing at restarts: when the
\* stored secret cannot be decrypted, a verify request, a disable request and
\* a validate request for the enabled user each end at once with 500 'Server
\* error' and no token, perform no save and leave the stored settings as they
\* are, whatever code they carry.
C17_DecryptFailure ==
    [][\A r \in Reqs :
          ( /\ Undecryptable
            /\ \/ Starts(r, "verify")
               \/ Starts(r, "disable")
               \/ /\ Starts(r, "validate")
                  /\ req'[r].email = UserEmail
                  /\ Settings.twoFactorEnabled )
            => /\ pc'[r] = "done"
               /\ resp'[r] = ServerError
               /\ ~HasToken(resp'[r])
               /\ store' = store]_vars

\* C17 witness: 2FA is enabled, the key has been changed since the secret was
\* stored, and a validate request carrying the current code of that secret was
\* answered 500.
C17_Witness ==
    /\ Settings.twoFactorEnabled
    /\ Settings.twoFactorSecret # Undefined
    /\ Settings.twoFactorSecret[1] # key
    /\ \E r \in Reqs :
          /\ req[r].op = "validate"
          /\ req[r].email = UserEmail
          /\ req[r].code = generateToken(Settings.twoFactorSecret[2], now)
          /\ resp[r] = ServerError

\* C18: requests overlapping: whenever twoFactorEnabled is true the stored
\* secret is one a successful verify confirmed.  Stated on the steps: every
\* step that turns twoFactorEnabled on, or changes the stored secret and leaves
\* twoFactorEnabled on, is the return of the save of a verify request whose
\* code had verified against the secret the store holds after the step.
C18_EnabledSecretConfirmed ==
    [][( /\ Settings'.twoFactorEnabled
         /\ \/ ~Settings.twoFactorEnabled
            \/ Settings'.twoFactorSecret # Settings.twoFactorSecret )
          => \E r \in Reqs :
                /\ Succeeds(r, "verify")
                /\ Settings'.twoFactorSecret # Undefined
                /\ req[r].code[1] = Settings'.twoFactorSecret[2]]_vars

\* The client's last answered request was, for this email, a login answered
\* with the challenge, or a refused second-factor request (a retry within the
\* attempt).
InAttempt(email) ==
    \E q \in Reqs :
        /\ pc[q] = "done"
        /\ req[q].email = email
        /\ \/ /\ req[q].op = "login"
              /\ req[q].password = UserPassword
              /\ IsChallenge(resp[q])
           \/ /\ req[q].op \in {"validate", "backup"}
              /\ resp[q].status = 400

\* C19: requests handled one after another: a validate request that is answered
\* with a session token, and a backup-redeem request that passes its checks
\* and goes on to the save that issues its token, arrive in a login attempt:
\* after a login with the right password was answered with the challenge for
\* that email, with nothing but refused second-factor requests in between.
C19_ChallengeBeforeSession ==
    [][\A r \in Reqs :
          ( \/ Starts(r, "validate") /\ HasToken(resp'[r])
            \/ Starts(r, "backup") /\ pc'[r] = "saving" )
            => InAttempt(req'[r].email)]_vars

\* C20: requests one after another, time passing: a validate request never
\* saves and leaves the store as it is; a validate request for the enabled
\* user whose code verifies against the stored secret at the present time is
\* answered with a session token, also when the validate request answered just
\* before it carried the same code and was answered with a token.
C20_CodeNotConsumed ==
    [][\A r \in Reqs : Starts(r, "validate") =>
          /\ pc'[r] = "done"
          /\ store' = store
          /\ ( /\ req'[r].email = UserEmail
               /\ Settings.twoFactorEnabled
               /\ GoodCode(req'[r].code) )
                => HasToken(resp'[r])
          /\ ( /\ pc[r] = "done"
               /\ req[r] = req'[r]
               /\ HasToken(resp[r])
               /\ GoodCode(req'[r].code) )
                => HasToken(resp'[r]) /\ replayed']_vars

\* C20 witness: a validate request repeating the code of the validate accepted
\* just before it, 29 seconds after the start, has been answered with a token,
\* and the settings are as verify left them.
C20_Witness ==
    /\ replayed
    /\ now = StartTime + 29
    /\ Settings.twoFactorEnabled
    /\ Len(Settings.twoFactorBackupCodes) = BackupCodeCount
    /\ \E r \in Reqs :
          /\ req[r].op = "validate"
          /\ req[r].code = generateToken(Settings.twoFactorSecret[2], StartTime)
          /\ HasToken(resp[r])

\* ==================================================== the account endpoints
\* POST /register, GET /verify-email/:token, POST /forgot-password and
\* POST /reset-password/:token, on the user collection.

\* the usernames and the passwords the clients send
Usernames == {"alice", "bob"}
\* a password the register validator rejects (shorter than 6)
ShortPassword == "pw"
NewPassword == "pw-new"

\* The lifetimes of the tokens, in seconds: the mails say 24 hours and 1 hour.
VerificationSeconds == 24 * 60 * 60
ResetSeconds == 60 * 60
\* the amounts of time that pass between two requests
ElapseSeconds == {ResetSeconds - 1, VerificationSeconds}

\* The tokens generated in one behaviour.
MaxTokens == 3

\* crypto-random tokens: the n-th one generated
RandomToken(n) == <<"token", n>>
\* a token nobody generated
ForgedToken == <<"token", 0>>

\* a date stored on a document path (Undefined when the path is unset)
Date(t) == <<t>>

\* { $gt: Date.now() } on a date path: an unset path matches nothing
Gt(date, t) == IF date = Undefined THEN FALSE ELSE date[1] > t

\* new User({ username, email, password }): the schema's defaults for the rest
NewUser(id, username, email, password) ==
    [ NoAccount EXCEPT !._id = id, !.username = username, !.email = email,
                       !.password = password ]

\* user.generateEmailVerificationToken(): sets the token and its expiry on the
\* document and returns the token
generateEmailVerificationToken(d, token) ==
    [ d EXCEPT !.emailVerificationToken = token,
               !.emailVerificationExpires = Date(now + VerificationSeconds) ]

\* user.generatePasswordResetToken()
generatePasswordResetToken(d, token) ==
    [ d EXCEPT !.passwordResetToken = token,
               !.passwordResetExpires = Date(now + ResetSeconds) ]

\* User.findOne(query): the first of the documents matching the query, given
\* by their places in the collection
First(matching) ==
    IF matching = {}
    THEN NoAccount
    ELSE users[CHOOSE i \in matching : \A j \in matching : i <= j]

\* the keys of the collection: no two documents share an email or a username
DuplicateKey(d) ==
    \E i \in 1..Len(users) :
        users[i]._id # d._id /\ (users[i].email = d.email \/ users[i].username = d.username)

\* user.save(): inserts a new document, updates the modified paths of a stored
\* one; throws on a duplicate key.
SaveThrows(d) == DuplicateKey(d)

SavedUsers(d, modified) ==
    IF \E i \in 1..Len(users) : users[i]._id = d._id
    THEN [ i \in 1..Len(users) |->
             IF users[i]._id = d._id
             THEN [ path \in DOMAIN users[i] |->
                      IF path \in modified THEN d[path] ELSE users[i][path] ]
             ELSE users[i] ]
    ELSE Append(users, d)

\* the 201 of register: { token: jwt, user: { id, username, email, ... } }
Registered(d) ==
    [ status |-> 201,
      body |-> [ token |-> <<"jwt", d._id>>,
                 user |-> [ id |-> d._id, username |-> d.username, email |-> d.email,
                            isEmailVerified |-> d.isEmailVerified ] ] ]

\* the 400 of the validators: { errors: [...] }
ValidationErrors == [status |-> 400, body |-> [errors |-> TRUE]]

\* The handlers up to their save: the response, or the document to save.

\* A register that does not look for an existing user.
RegisterHandlerUnchecked(request) ==
    IF request.password = ShortPassword
    THEN Reply(ValidationErrors)
    ELSE ThenSave(generateEmailVerificationToken(
                      NewUser(nextToken, request.username, request.email, request.password),
                      RandomToken(nextToken)),
                  DOMAIN NoAccount)

RegisterHandler(request) ==
    IF request.password = ShortPassword
    THEN Reply(ValidationErrors)
    ELSE LET user == First({ i \in 1..Len(users) :
                                 users[i].email = request.email \/ users[i].username = request.username })
         IN  IF user # NoAccount
             THEN Reply(Error(400, "User already exists"))
             ELSE ThenSave(generateEmailVerificationToken(
                               NewUser(nextToken, request.username, request.email, request.password),
                               RandomToken(nextToken)),
                           DOMAIN NoAccount)

\* A verify-email that does not look at the expiry.
VerifyEmailHandlerAnyAge(request) ==
    LET user == First({ i \in 1..Len(users) : users[i].emailVerificationToken = request.token })
    IN  IF user = NoAccount
        THEN Reply(Error(400, "Invalid or expired token"))
        ELSE ThenSave([ user EXCEPT !.isEmailVerified = TRUE,
                                    !.emailVerificationToken = Undefined,
                                    !.emailVerificationExpires = Undefined ],
                      {"isEmailVerified", "emailVerificationToken", "emailVerificationExpires"})

VerifyEmailHandler(request) ==
    LET user == First({ i \in 1..Len(users) :
                       /\ users[i].emailVerificationToken = request.token
                       /\ Gt(users[i].emailVerificationExpires, now) })
    IN  IF user = NoAccount
        THEN Reply(Error(400, "Invalid or expired token"))
        ELSE ThenSave([ user EXCEPT !.isEmailVerified = TRUE,
                                    !.emailVerificationToken = Undefined,
                                    !.emailVerificationExpires = Undefined ],
                      {"isEmailVerified", "emailVerificationToken", "emailVerificationExpires"})

ForgotPasswordHandler(request) ==
    LET user == First({ i \in 1..Len(users) : users[i].email = request.email })
    IN  IF user = NoAccount
        THEN Reply(Error(400, "User not found"))
        ELSE ThenSave(generatePasswordResetToken(user, RandomToken(nextToken)),
                      {"passwordResetToken", "passwordResetExpires"})

\* A reset-password that leaves the token on the document.
ResetPasswordHandlerKeepsToken(request) ==
    LET user == First({ i \in 1..Len(users) :
                       /\ users[i].passwordResetToken = request.token
                       /\ Gt(users[i].passwordResetExpires, now) })
    IN  IF user = NoAccount
        THEN Reply(Error(400, "Invalid or expired token"))
        ELSE ThenSave([ user EXCEPT !.password = request.password ], {"password"})

ResetPasswordHandler(request) ==
    LET user == First({ i \in 1..Len(users) :
                       /\ users[i].passwordResetToken = request.token
                       /\ Gt(users[i].passwordResetExpires, now) })
    IN  IF user = NoAccount
        THEN Reply(Error(400, "Invalid or expired token"))
        ELSE ThenSave([ user EXCEPT !.password = request.password,
                                    !.passwordResetToken = Undefined,
                                    !.passwordResetExpires = Undefined ],
                      {"password", "passwordResetToken", "passwordResetExpires"})

\* Slot r takes the next request: the lowest slot with no handler running.
Running(q) == jobs[q].pc \in {"saving", "mailing"}

FreeJob(r) == ~Running(r) /\ \A q \in Reqs : q < r => Running(q)

\* The first step of a handler: the query and the code up to the save.  The
\* responses of the finished requests have been delivered.
Handle(r, op, request, outcome) ==
    /\ FreeJob(r)
    /\ outcome.save => nextToken <= MaxTokens
    /\ jobs' = [ q \in Reqs |->
                 IF q = r
                 THEN [ pc |-> IF outcome.save THEN "saving" ELSE "done",
                        op |-> op, in |-> request,
                        user |-> IF outcome.save THEN outcome.user ELSE NoAccount,
                        modified |-> outcome.modified, out |-> outcome.out ]
                 ELSE IF Running(q) THEN jobs[q] ELSE NoJob ]
    /\ nextToken' = IF outcome.save /\ op \in {"register", "forgot-password"}
                    THEN nextToken + 1 ELSE nextToken
    /\ UNCHANGED <<users, now, twoFactorVars, cart>>

Register(r) ==
    \E username \in Usernames, email \in {UserEmail, OtherEmail},
       password \in {UserPassword, ShortPassword} :
        LET request == [NoInput EXCEPT !.username = username, !.email = email,
                                       !.password = password]
        IN  Handle(r, "register", request, RegisterHandler(request))

\* The tokens a client can send: the ones generated so far, and a forged one.
SentTokens == {ForgedToken} \cup { RandomToken(n) : n \in 1..(nextToken - 1) }

VerifyEmail(r) ==
    \E token \in SentTokens :
        LET request == [NoInput EXCEPT !.token = token]
        IN  Handle(r, "verify-email", request, VerifyEmailHandler(request))

ForgotPassword(r) ==
    \E email \in {UserEmail, OtherEmail} :
        LET request == [NoInput EXCEPT !.email = email]
        IN  Handle(r, "forgot-password", request, ForgotPasswordHandler(request))

ResetPassword(r) ==
    \E token \in SentTokens :
        LET request == [NoInput EXCEPT !.token = token, !.password = NewPassword]
        IN  Handle(r, "reset-password", request, ResetPasswordHandler(request))

\* The handler in slot r ends with the response out.
Respond(r, out) ==
    jobs' = [ q \in Reqs |->
              IF q = r THEN [jobs[r] EXCEPT !.pc = "done", !.user = NoAccount,
                                            !.modified = {}, !.out = out]
              ELSE IF Running(q) THEN jobs[q] ELSE NoJob ]

\* What the handler answers once everything it awaited has returned.
Answer(job) ==
    CASE job.op = "register" -> Registered(job.user)
      [] job.op = "verify-email" -> Message("Email verified successfully")
      [] job.op = "forgot-password" -> Message("Password reset email sent")
      [] job.op = "reset-password" -> Message("Password reset successfully")

\* `await user.save()` returns: register and forgot-password go on to send
\* their mail, the others answer.
AccountSave(r) ==
    /\ jobs[r].pc = "saving"
    /\ ~SaveThrows(jobs[r].user)
    /\ users' = SavedUsers(jobs[r].user, jobs[r].modified)
    /\ IF jobs[r].op \in {"register", "forgot-password"}
       THEN jobs' = [jobs EXCEPT ![r].pc = "mailing"]
       ELSE Respond(r, Answer(jobs[r]))
    /\ UNCHANGED <<nextToken, now, twoFactorVars, cart>>

\* `await user.save()` throws (a duplicate key, or the store fails): the catch
\* block answers.
AccountSaveFails(r) ==
    /\ jobs[r].pc = "saving"
    /\ Respond(r, ServerError)
    /\ UNCHANGED <<users, nextToken, now, twoFactorVars, cart>>

\* `await transporter.sendMail(...)` returns.
SendMail(r) ==
    /\ jobs[r].pc = "mailing"
    /\ Respond(r, Answer(jobs[r]))
    /\ UNCHANGED <<users, nextToken, now, twoFactorVars, cart>>

\* `await transporter.sendMail(...)` throws.
SendMailFails(r) ==
    /\ jobs[r].pc = "mailing"
    /\ Respond(r, ServerError)
    /\ UNCHANGED <<users, nextToken, now, twoFactorVars, cart>>

\* No account handler is running.
AccountQuiet == \A q \in Reqs : ~Running(q)

\* Time passes between two requests, each time more than has passed before.
Elapse ==
    /\ AccountQuiet
    /\ \E d \in ElapseSeconds :
          /\ now - StartTime < d
          /\ now' = now + d
    /\ UNCHANGED <<twoFactorVars, accountVars, cart>>

\* The account endpoints, one request at a time, with time passing.
AccountNext ==
    \/ Elapse
    \/ \E r \in Reqs :
          \/ AccountQuiet /\ Register(r)
          \/ AccountQuiet /\ VerifyEmail(r)
          \/ AccountQuiet /\ ForgotPassword(r)
          \/ AccountQuiet /\ ResetPassword(r)
          \/ AccountSave(r)
          \/ AccountSaveFails(r)
          \/ SendMail(r)
          \/ SendMailFails(r)

AccountSpec == Init /\ [][AccountNext]_vars

\* The register and verify-email requests of several clients, overlapping.
RegisterNext ==
    \E r \in Reqs :
        \/ Register(r)
        \/ VerifyEmail(r)
        \/ AccountSave(r)
        \/ AccountSaveFails(r)
        \/ SendMail(r)
        \/ SendMailFails(r)

RegisterSpec == Init /\ [][RegisterNext]_vars

\* ------------------------------------------------- vocabulary of the claims
\* The documents of the collection.
Accounts == { users[i] : i \in 1..Len(users) }

\* This step is the arrival of a request to account endpoint op, in slot r.
StartsJob(r, op) ==
    /\ now' = now
    /\ users' = users
    /\ ~Running(r)
    /\ jobs'[r].pc # "idle"
    /\ jobs'[r].op = op
    /\ \A q \in Reqs \ {r} : jobs'[q] = IF Running(q) THEN jobs[q] ELSE NoJob

\* This step is the return of the save of the request in slot r, of endpoint op.
SavesJob(r, op) == jobs[r].pc = "saving" /\ jobs'[r].pc # "saving" /\ jobs[r].op = op /\ users' # users

\* The request in slot r has been refused as carrying no valid token.
Refused(job) == job.pc = "done" /\ job.out = Error(400, "Invalid or expired token")

\* Some document holds token as its reset token, not yet expired.
Resettable(token) ==
    \E u \in Accounts : u.passwordResetToken = token /\ Gt(u.passwordResetExpires, now)

\* C21: a reset-password request goes on to change a password exactly when its
\* token is the passwordResetToken of a document whose passwordResetExpires is
\* later than now, and is otherwise answered 400 'Invalid or expired token' with
\* no document changed; when its save returns, the document has the new
\* password and neither reset token nor expiry; and a generated token that is
\* on no document, stored or still to be saved, never comes back on one, so
\* that a second reset with the token of a successful one is refused.  No
\* other step changes the password of a stored document.
C21_ResetTokenSingleUse ==
    [][/\ \A r \in Reqs : StartsJob(r, "reset-password") =>
             /\ jobs'[r].pc = "saving" <=> Resettable(jobs'[r].in.token)
             /\ jobs'[r].pc # "saving" => Refused(jobs'[r])
       /\ \A r \in Reqs : SavesJob(r, "reset-password") =>
             /\ jobs'[r].out = Message("Password reset successfully")
             /\ \E u \in Accounts :
                  /\ u.passwordResetToken = jobs[r].in.token
                  /\ \E i \in 1..Len(users) :
                       /\ users[i] = u
                       /\ users'[i] = [ u EXCEPT !.password = jobs[r].in.password,
                                                 !.passwordResetToken = Undefined,
                                                 !.passwordResetExpires = Undefined ]
                       /\ \A j \in 1..Len(users) \ {i} : users'[j] = users[j]
             /\ ~\E u \in { users'[i] : i \in 1..Len(users') } :
                   u.passwordResetToken = jobs[r].in.token
       /\ \A token \in SentTokens :
             ( /\ ~\E u \in Accounts : u.passwordResetToken = token
               /\ ~\E q \in Reqs : jobs[q].user.passwordResetToken = token )
                => ~\E i \in 1..Len(users') : users'[i].passwordResetToken = token
       /\ (~\E r \in Reqs : SavesJob(r, "reset-password")) =>
             \A i \in 1..Len(users) :
                 i <= Len(users') /\ users'[i].password = users[i].password]_vars

\* C21 witness: the only reset token generated (the second token, after the one
\* of the registration) has changed the password, and a further reset-password
\* with the same token, before the hour has passed, has been refused.
C21_Witness ==
    /\ nextToken = 3
    /\ now = StartTime
    /\ \E u \in Accounts :
          /\ u.password = NewPassword
          /\ u.passwordResetToken = Undefined
          /\ u.emailVerificationToken = RandomToken(1)
    /\ \E r \in Reqs :
          /\ jobs[r].op = "reset-password"
          /\ jobs[r].in.token = RandomToken(2)
          /\ Refused(jobs[r])

\* Some document holds token as its email verification token, not yet expired.
Verifiable(token) ==
    \E u \in Accounts : u.emailVerificationToken = token /\ Gt(u.emailVerificationExpires, now)

\* C22: a verify-email request goes on to its save exactly when its token is
\* the emailVerificationToken of a document whose emailVerificationExpires is
\* later than now, and is otherwise refused; isEmailVerified of a stored
\* document becomes true only when the save of a verify-email returns, on the
\* document that held the token, which then has neither token nor expiry; a
\* new document has it false; no step makes it false again; and a generated
\* token that is on no document, stored or still to be saved, never comes back
\* on one.
C22_EmailVerifiedOnlyByToken ==
    [][/\ \A r \in Reqs : StartsJob(r, "verify-email") =>
             /\ jobs'[r].pc = "saving" <=> Verifiable(jobs'[r].in.token)
             /\ jobs'[r].pc # "saving" => Refused(jobs'[r])
       /\ Len(users') >= Len(users)
       /\ \A i \in 1..Len(users') :
             IF i > Len(users)
             THEN ~users'[i].isEmailVerified
             ELSE /\ users[i].isEmailVerified => users'[i].isEmailVerified
                  /\ (users'[i].isEmailVerified /\ ~users[i].isEmailVerified) =>
                        \E r \in Reqs :
                            /\ SavesJob(r, "verify-email")
                            /\ users[i].emailVerificationToken = jobs[r].in.token
                            /\ users'[i].emailVerificationToken = Undefined
                            /\ users'[i].emailVerificationExpires = Undefined
       /\ \A token \in SentTokens :
             ( /\ ~\E u \in Accounts : u.emailVerificationToken = token
               /\ ~\E q \in Reqs : jobs[q].user.emailVerificationToken = token )
                => ~\E i \in 1..Len(users') : users'[i].emailVerificationToken = token]_vars

\* C22 witness: the token of the registration has verified the email, and a
\* further verify-email with the same token, before the 24 hours have passed,
\* has been refused.
C22_Witness ==
    /\ now = StartTime + ResetSeconds - 1
    /\ \E u \in Accounts :
          /\ u._id = 1
          /\ u.isEmailVerified
          /\ u.emailVerificationToken = Undefined
    /\ \E r \in Reqs :
          /\ jobs[r].op = "verify-email"
          /\ jobs[r].in.token = RandomToken(1)
          /\ Refused(jobs[r])

\* No two documents of the collection share an email or a username.
UniqueKeys(collection) ==
    \A i, j \in 1..Len(collection) :
        i # j => /\ collection[i].email # collection[j].email
                 /\ collection[i].username # collection[j].username

\* Some document has the email or the username of the request.
Taken(request) ==
    \E u \in Accounts : u.email = request.email \/ u.username = request.username

FailsJob(r, op) ==
    /\ Running(r)
    /\ jobs[r].op = op
    /\ jobs'[r].pc = "done"
    /\ jobs'[r].out = ServerError

\* C24: when a register request is answered 500 'Server error', the collection
\* holds no document created by it, and neither its email nor its username is
\* on a document it created.
C24_FailedRegisterCreatesNothing ==
    [][\A r \in Reqs : FailsJob(r, "register") =>
          ~\E i \in 1..Len(users') : users'[i]._id = jobs[r].user._id]_vars

\* ======================================================== the Cart component
\* Cart of client/src/components: its battery effect, its cart-sync effect and
\* its quantity buttons, with the browser's battery, the background task
\* manager and the cart context it calls.

\* The times the component is mounted in one behaviour.
MaxMounts == 2
\* The largest quantity of an item.
MaxQuantity == 2

\* battery.level, in percent: at the threshold of low power, and above it
Levels == {20, 50}

\* the intervals of the cart-sync task, in ms
LowPowerInterval == 60000
NormalInterval == 30000

\* A call the component makes: fn(name, n) or fn(flag), and the component
\* instance that makes it.
Call(fn, name, n, flag, instance) ==
    [fn |-> fn, name |-> name, n |-> n, flag |-> flag, instance |-> instance]

\* battery.level <= 0.2 && !battery.charging
LowPower(battery) == battery.level <= 20 /\ ~battery.charging

\* cartItems.length: an item is in the cart when its quantity is not 0
Length(items) == Cardinality({ id \in Items : items[id] # 0 })

\* The dependencies of the cart-sync effect: isLowPowerMode, cartItems.length
\* and the identity of the context functions.
Deps(c) == <<c.isLowPowerMode, Length(c.cartItems), c.version>>

\* backgroundTaskManager.registerTask(name, task, interval, priority) and
\* unregisterTask(name), on the manager's tasks
registerTask(tasks, name, interval) == Append(tasks, [name |-> name, interval |-> interval])

unregisterTask(tasks, name) == SelectSeq(tasks, LAMBDA t : t.name # name)

\* The body of the cart-sync effect.
CartSyncEffect(c) ==
    LET interval == IF c.isLowPowerMode THEN LowPowerInterval ELSE NormalInterval
    IN  [ c EXCEPT !.tasks = registerTask(c.tasks, "cart-sync", interval),
                   !.deps = Deps(c),
                   !.calls = Append(c.calls, Call("registerTask", "cart-sync", interval,
                                                  FALSE, c.instance)) ]

\* A cleanup of the cart-sync effect that unregisters nothing.
CartSyncCleanupNone(c) == [ c EXCEPT !.deps = << >> ]

\* The cleanup the cart-sync effect returns.
CartSyncCleanup(c) ==
    [ c EXCEPT !.tasks = unregisterTask(c.tasks, "cart-sync"),
               !.deps = << >>,
               !.calls = Append(c.calls, Call("unregisterTask", "cart-sync", 0, FALSE,
                                              c.instance)) ]

\* The body of the battery effect: asks for the battery when the browser has
\* getBattery.  It returns nothing.
BatteryEffect(c) ==
    IF c.getBattery THEN [ c EXCEPT !.pending = @ \cup {c.instance} ] ELSE c

\* checkPowerMode of instance i: setIsLowPowerMode(...).  The setter of an
\* instance that is not mounted changes no state.
checkPowerMode(c, i) ==
    [ c EXCEPT !.isLowPowerMode = IF c.mounted /\ c.instance = i THEN LowPower(c.battery) ELSE @,
               !.calls = Append(@, Call("setIsLowPowerMode", "-", 0, LowPower(c.battery), i)) ]

\* The calls of the listeners attached to the battery, in the order of the
\* instances that attached them.
RECURSIVE Dispatch(_, _)
Dispatch(c, listening) ==
    IF listening = {} THEN c
    ELSE LET i == CHOOSE j \in listening : \A k \in listening : j <= k
         IN  Dispatch(checkPowerMode(c, i), listening \ {i})

\* removeFromCart(id) and updateQuantity(id, n) of the cart context
removeFromCart(items, id) == [items EXCEPT ![id] = 0]

updateQuantity(items, id, n) == IF items[id] = 0 THEN items ELSE [items EXCEPT ![id] = n]

\* handleRemoveItem(item)
handleRemoveItem(c, item) ==
    [ c EXCEPT !.cartItems = removeFromCart(@, item.id),
               !.calls = @ \o << Call("trackDetailedEvent", "remove_item", 0, FALSE, c.instance),
                                 Call("removeFromCart", item.id, 0, FALSE, c.instance) >> ]

\* A handleUpdateQuantity that removes only below 0.
handleUpdateQuantityToZero(c, item, newQuantity) ==
    IF newQuantity < 0
    THEN handleRemoveItem(c, item)
    ELSE [ c EXCEPT !.cartItems = updateQuantity(@, item.id, newQuantity),
                    !.calls = @ \o << Call("trackDetailedEvent", "update_quantity", newQuantity,
                                           FALSE, c.instance),
                                      Call("updateQuantity", item.id, newQuantity, FALSE,
                                           c.instance) >> ]

\* handleUpdateQuantity(item, newQuantity)
handleUpdateQuantity(c, item, newQuantity) ==
    IF newQuantity <= 0
    THEN handleRemoveItem(c, item)
    ELSE [ c EXCEPT !.cartItems = updateQuantity(@, item.id, newQuantity),
                    !.calls = @ \o << Call("trackDetailedEvent", "update_quantity", newQuantity,
                                           FALSE, c.instance),
                                      Call("updateQuantity", item.id, newQuantity, FALSE,
                                           c.instance) >> ]

\* The cart before a step: the calls of the step before are forgotten.
Before == [cart EXCEPT !.calls = << >>]

\* The item of the list as it was rendered.
Rendered(id) == [id |-> id, quantity |-> cart.rendered[id]]

\* The component is mounted: a new instance with isLowPowerMode false renders
\* the cart and runs its two effects.  The first mount finds out whether the
\* browser has navigator.getBattery.
Mount ==
    /\ ~cart.mounted
    /\ cart.instance < MaxMounts
    /\ \E has \in IF cart.instance = 0 THEN BOOLEAN ELSE {cart.getBattery} :
          cart' = CartSyncEffect(BatteryEffect(
                      [ Before EXCEPT !.mounted = TRUE, !.instance = @ + 1,
                                      !.getBattery = has, !.isLowPowerMode = FALSE,
                                      !.rendered = cart.cartItems ]))
    /\ UNCHANGED <<now, twoFactorVars, accountVars>>

\* The component is unmounted: the cleanups of its effects run.
Unmount ==
    /\ cart.mounted
    /\ cart' = CartSyncCleanup([Before EXCEPT !.mounted = FALSE])
    /\ UNCHANGED <<now, twoFactorVars, accountVars>>

\* The promise of navigator.getBattery() of instance i resolves: the callback
\* attaches checkPowerMode to 'levelchange' and 'chargingchange' and calls it.
\* What the callback returns goes to the promise.
BatteryResolves ==
    /\ \E i \in cart.pending :
          cart' = checkPowerMode([ Before EXCEPT !.pending = @ \ {i},
                                                 !.listeners = @ \cup {i} ], i)
    /\ UNCHANGED <<now, twoFactorVars, accountVars>>

\* The battery fires 'levelchange' or 'chargingchange'.
BatteryEvent ==
    /\ cart.instance > 0
    /\ \E battery \in [level : Levels, charging : BOOLEAN] :
          /\ \/ battery.level # cart.battery.level /\ battery.charging = cart.battery.charging
             \/ battery.level = cart.battery.level /\ battery.charging # cart.battery.charging
          /\ cart' = Dispatch([Before EXCEPT !.battery = battery], cart.listeners)
    /\ UNCHANGED <<now, twoFactorVars, accountVars>>

\* The component renders again after a change of its state or of the context:
\* the list is rendered from cartItems and, when a dependency of the cart-sync
\* effect changed, its cleanup runs and then its body.
Render ==
    /\ cart.mounted
    /\ cart.deps # Deps(cart) \/ cart.rendered # cart.cartItems
    /\ cart' = IF cart.deps # Deps(cart)
               THEN CartSyncEffect(CartSyncCleanup([Before EXCEPT !.rendered = cart.cartItems]))
               ELSE [Before EXCEPT !.rendered = cart.cartItems]
    /\ UNCHANGED <<now, twoFactorVars, accountVars>>

\* The context provider renders again: the functions it hands out are new ones.
ProviderRenders ==
    /\ cart.mounted
    /\ cart.deps = Deps(cart)
    /\ cart' = [Before EXCEPT !.version = ~@]
    /\ UNCHANGED <<now, twoFactorVars, accountVars>>

\* Another component adds an item to the cart.
AddToCart ==
    /\ cart.instance > 0
    /\ \E id \in Items :
          /\ cart.cartItems[id] < MaxQuantity
          /\ cart' = [Before EXCEPT !.cartItems[id] = @ + 1]
    /\ UNCHANGED <<now, twoFactorVars, accountVars>>

\* The buttons of a rendered item: minus, plus and Remove.
ClickMinus ==
    /\ cart.mounted
    /\ \E id \in Items :
          /\ cart.rendered[id] # 0
          /\ cart' = handleUpdateQuantity(Before, Rendered(id), cart.rendered[id] - 1)
    /\ UNCHANGED <<now, twoFactorVars, accountVars>>

ClickPlus ==
    /\ cart.mounted
    /\ \E id \in Items :
          /\ cart.rendered[id] # 0
          /\ cart.rendered[id] < MaxQuantity
          /\ cart' = handleUpdateQuantity(Before, Rendered(id), cart.rendered[id] + 1)
    /\ UNCHANGED <<now, twoFactorVars, accountVars>>

ClickRemove ==
    /\ cart.mounted
    /\ \E id \in Items :
          /\ cart.rendered[id] # 0
          /\ cart' = handleRemoveItem(Before, Rendered(id))
    /\ UNCHANGED <<now, twoFactorVars, accountVars>>

CartNext ==
    \/ Mount
    \/ Unmount
    \/ BatteryResolves
    \/ BatteryEvent
    \/ Render
    \/ ProviderRenders
    \/ AddToCart
    \/ ClickMinus
    \/ ClickPlus
    \/ ClickRemove

CartSpec == Init /\ [][CartNext]_vars

\* ------------------------------------------- vocabulary of the Cart claims
\* The calls of fn a step made.
CallsOf(c, fn) == { c.calls[k] : k \in { j \in 1..Len(c.calls) : c.calls[j].fn = fn } }

\* The quantities handleUpdateQuantity is tried with.
Quantities == (0 - 1)..(MaxQuantity + 1)

\* C25: handleUpdateQuantity(item, n) with n <= 0 calls removeFromCart(item.id)
\* and not updateQuantity, and with n > 0 calls updateQuantity(item.id, n) and
\* not removeFromCart; the minus button of an item rendered with quantity 1
\* removes it from the cart; and no step calls updateQuantity with a quantity
\* below 1.
C25_QuantityNeverBelowOne ==
    [][/\ \A id \in Items, n \in Quantities :
             LET after == handleUpdateQuantity(Before, Rendered(id), n)
                 removed == { call.name : call \in CallsOf(after, "removeFromCart") }
                 updated == { <<call.name, call.n>> : call \in CallsOf(after, "updateQuantity") }
             IN  /\ n <= 0 => removed = {id} /\ updated = {}
                 /\ n > 0 => removed = {} /\ updated = {<<id, n>>}
       /\ \A id \in Items :
             ( /\ cart.mounted
               /\ cart.rendered[id] = 1
               /\ cart' = handleUpdateQuantity(Before, Rendered(id), cart.rendered[id] - 1) )
                => /\ cart'.cartItems[id] = 0
                   /\ CallsOf(cart', "updateQuantity") = {}
                   /\ \E call \in CallsOf(cart', "removeFromCart") : call.name = id
       /\ \A call \in CallsOf(cart', "updateQuantity") : call.n >= 1]_vars

\* C25 witness: an item rendered with quantity 1 has been removed from the cart
\* by a click of the second instance of the component, with one call of
\* removeFromCart and none of updateQuantity.
C25_Witness ==
    \E id \in Items :
        /\ cart.mounted
        /\ cart.instance = 2
        /\ cart.rendered[id] = 1
        /\ cart.cartItems[id] = 0
        /\ { call.name : call \in CallsOf(cart, "removeFromCart") } = {id}
        /\ CallsOf(cart, "updateQuantity") = {}

\* C26: when the component is unmounted its checkPowerMode is no longer
\* attached to the battery, and a battery event calls setIsLowPowerMode only of
\* the instance that is mounted, whether the promise of getBattery resolved
\* before the unmount or after it.
C26_ListenersRemovedOnUnmount ==
    [][/\ ~cart'.mounted => cart'.listeners = {}
       /\ cart'.battery # cart.battery =>
             \A call \in CallsOf(cart', "setIsLowPowerMode") :
                 cart.mounted /\ call.instance = cart.instance]_vars

\* The registrations of 'cart-sync' the manager holds.
CartSync(c) == SelectSeq(c.tasks, LAMBDA t : t.name = "cart-sync")

\* C27: the manager never holds more than one 'cart-sync' registration and
\* holds none while the component is not mounted; a step that calls
\* registerTask('cart-sync') is a mount, with none registered before it, or
\* calls unregisterTask('cart-sync') first, in the same step, on the one
\* registered before it; no step of an unmounted component registers; and the
\* interval registered is 60000 ms when isLowPowerMode is true and 30000 ms
\* otherwise.
C27_OneCartSyncTask ==
    [][/\ Len(CartSync(cart')) <= 1
       /\ ~cart'.mounted => CartSync(cart') = << >>
       /\ cart'.mounted => Len(CartSync(cart')) = 1
       /\ \A k \in 1..Len(cart'.calls) :
             cart'.calls[k].fn = "registerTask" =>
                /\ cart'.mounted
                /\ cart'.calls[k].name = "cart-sync"
                /\ cart'.calls[k].n = IF cart'.isLowPowerMode THEN 60000 ELSE 30000
                /\ CartSync(cart')[1].interval = cart'.calls[k].n
                /\ \A j \in 1..Len(cart'.calls) : cart'.calls[j].fn = "registerTask" => j = k
                /\ IF cart.mounted
                   THEN /\ Len(CartSync(cart)) = 1
                        /\ k > 1
                        /\ cart'.calls[k - 1].fn = "unregisterTask"
                        /\ cart'.calls[k - 1].name = "cart-sync"
                   ELSE CartSync(cart) = << >>]_vars

\* C27 witness: the second instance of the component, in low power mode, has
\* just run its cart-sync effect again: it unregistered the task and registered
\* it with 60000 ms, the one registration the manager holds.
C27_Witness ==
    /\ cart.mounted
    /\ cart.instance = 2
    /\ cart.isLowPowerMode
    /\ Len(cart.calls) = 2
    /\ cart.calls[1].fn = "unregisterTask"
    /\ cart.calls[2].fn = "registerTask"
    /\ cart.calls[2].n = 60000
    /\ cart.tasks = <<[name |-> "cart-sync", interval |-> 60000]>>

====
